---- MODULE Spec2Model ----
(***************************************************************************)
(* A model of the EER decoder of crates/eer/src/lib.rs: the bit reader     *)
(* (BitStream), the compression parameter resolver, the strip/event        *)
(* decoder (decode_eer_frame) and the frame accumulator (decode_frames,    *)
(* generate_thumbnail).                                                    *)
(*                                                                         *)
(* A u32 is kept as a vector of 32 bits (a sequence, bit k at index k+1),  *)
(* so that 32-bit values never leave the range of the model checker's      *)
(* integers.  A panic of the Rust program (index out of bounds, usize      *)
(* underflow) is the control state "panic".                                *)
(***************************************************************************)
EXTENDS Integers, Sequences, FiniteSets, TLC

VARIABLES
    pc,         \* control location of the program
    buffer,     \* BitStream.buffer: the bytes being read
    bit_pos,    \* BitStream.bit_pos
    lastRead,   \* the last get_bits call: its width, start and result
    readOut,    \* the bits returned so far, concatenated in read order
    container,  \* the TIFF container: its frames (IFDs) and the file's bytes
    cursor,     \* the index of the frame the tiff Decoder stands on
    params,     \* the CompressionParams in use
    image,      \* decode_eer_frame's image, flat, row-major
    strips_info,\* decode_eer_frame's strips_info
    strip_idx,  \* the strip loop's index
    pos,        \* the pixel offset inside the strip
    events,     \* the increments made so far: which strip, which flat pixel
    iters,      \* how many passes the while loop made through the strip
    skip_frames,\* decode_frames' skip_frames: Option<u32>
    sum_image,  \* decode_frames' sum_image, flat, row-major
    num_frames, \* decode_frames' num_frames
    step,       \* decode_frames' step
    frame_idx,  \* decode_frames' loop index
    skip_left,  \* iterations left of the inner skip loop
    decodeLog,  \* the decode_eer_frame calls so far: cursor and params of each
    sumLog,     \* the frame images added to sum_image so far, in order
    firstRun,   \* the result of an earlier decode_frames call on these frames
    overflow_checks,\* the build: is integer overflow checked (a panic)?
    entry       \* the public function the run was entered through

bsVars == <<buffer, bit_pos>>

readVars == <<lastRead, readOut>>

decVars == <<image, strips_info, strip_idx, pos, events, iters>>

logVars == <<decodeLog, sumLog, firstRun, overflow_checks, entry>>

frmVars == <<skip_frames, sum_image, num_frames, step, frame_idx, skip_left>>

vars == <<pc, buffer, bit_pos, lastRead, readOut, container, cursor, params,
          image, strips_info, strip_idx, pos, events, iters,
          skip_frames, sum_image, num_frames, step, frame_idx, skip_left,
          decodeLog, sumLog, firstRun, overflow_checks, entry>>

-----------------------------------------------------------------------------
(* Arithmetic helpers *)

\* no earlier decode_frames call
NoRun == [done |-> FALSE]

Min(a, b) == IF a < b THEN a ELSE b

RECURSIVE Pow2(_)
Pow2(n) == IF n = 0 THEN 1 ELSE 2 * Pow2(n - 1)

\* bit j (0 = least significant) of the byte b
ByteBit(b, j) == (b \div Pow2(j)) % 2

\* the bit at absolute position p of a byte sequence: LSB first within a
\* byte, bytes ascending
BufBit(buf, p) == ByteBit(buf[(p \div 8) + 1], p % 8)

BufferBits(buf) == [p \in 1..(8 * Len(buf)) |-> BufBit(buf, p - 1)]

\* the number held in the first n bits of a bit vector
RECURSIVE BitsToNat(_, _)
BitsToNat(bits, n) ==
    IF n = 0 THEN 0
    ELSE IF bits[n] = 0 THEN BitsToNat(bits, n - 1)
    ELSE Pow2(n - 1) + BitsToNat(bits, n - 1)

-----------------------------------------------------------------------------
(* BitStream *)

\* the width of the chunk get_bits assembles, in bytes
ChunkBytes == 4

\* the width of a u32, in bits
WordBits == 32

\* for i in 0..4.min(self.buffer.len() - byte_index): the bytes of the chunk
ChunkAvail(buf, byte_index) == Min(ChunkBytes, Len(buf) - byte_index)

\* bit j of chunk, the u32 OR-ed together from the available bytes
ChunkBit(buf, byte_index, j) ==
    IF (j \div 8) < ChunkAvail(buf, byte_index)
    THEN ByteBit(buf[byte_index + (j \div 8) + 1], j % 8)
    ELSE 0

\* BitStream::get_bits(n) for n <= 32, the widths debug_assert admits.
\* buffer.len() - byte_index underflows
\* when byte_index > len: a panic in a build with overflow checks, and
\* without them the wrapped bound lets buffer[byte_index] be indexed, which
\* panics as well.
GetBits(buf, bp, n) ==
    LET byte_index == bp \div 8
        bit_offset == bp % 8
    IN  IF byte_index > Len(buf)
        THEN [ok |-> FALSE, val |-> [k \in 1..WordBits |-> 0], bit_pos |-> bp]
        ELSE [ok |-> TRUE,
              \* (chunk >> bit_offset) & mask
              val |-> [k \in 1..WordBits |->
                         IF (k - 1) < n /\ bit_offset + (k - 1) < WordBits
                         THEN ChunkBit(buf, byte_index, bit_offset + (k - 1))
                         ELSE 0],
              bit_pos |-> bp + n]

\* the u32 get_bits returns, as a number
U32Val(val) == BitsToNat(val, WordBits)

\* BitStream::no_bits_left
NoBitsLeft(buf, bp) == (Len(buf) * 8) <= bp

-----------------------------------------------------------------------------
(* Compression parameter resolver *)

NoContainer == [frames |-> <<>>, file |-> <<>>]

\* Option<u32>
None == [some |-> FALSE, val |-> 0]

Some(v) == [some |-> TRUE, val |-> v]

NoParams == [code_len |-> 0, horz_sub_bits |-> 0, vert_sub_bits |-> 0]

CodeFixed8 == 65000

CodeFixed7 == 65001

CodeCustom == 65002

\* a resolver that falls back to the 8/2/2 parameters for any other code
GetCompressionParamsDefaulting(frame) ==
    CASE frame.compression = CodeFixed7 ->
            [ok |-> TRUE, params |-> [code_len |-> 7, horz_sub_bits |-> 2,
                                      vert_sub_bits |-> 2]]
      [] frame.compression = CodeCustom /\ frame.has_tags ->
            [ok |-> TRUE, params |-> frame.tags]
      [] OTHER ->
            [ok |-> TRUE, params |-> [code_len |-> 8, horz_sub_bits |-> 2,
                                      vert_sub_bits |-> 2]]

\* get_compression_params on the frame the decoder stands on.  A frame
\* carries its Compression tag and, when has_tags, the three custom tags
\* 65007 (code_len), 65008 (horz_sub_bits) and 65009 (vert_sub_bits); a
\* missing custom tag makes get_tag_u32 fail.
GetCompressionParams(frame) ==
    CASE frame.compression = CodeFixed8 ->
            [ok |-> TRUE,
             params |-> [code_len |-> 8, horz_sub_bits |-> 2,
                         vert_sub_bits |-> 2]]
      [] frame.compression = CodeFixed7 ->
            [ok |-> TRUE,
             params |-> [code_len |-> 7, horz_sub_bits |-> 2,
                         vert_sub_bits |-> 2]]
      [] frame.compression = CodeCustom ->
            IF frame.has_tags
            THEN [ok |-> TRUE, params |-> frame.tags]
            ELSE [ok |-> FALSE, params |-> NoParams]
      [] OTHER -> [ok |-> FALSE, params |-> NoParams]

-----------------------------------------------------------------------------
(* Strip locator and event decoder: decode_eer_frame *)

\* the frame the decoder stands on
CurFrame == container.frames[cursor + 1]

\* offsets.into_iter().zip(sizes.into_iter()): as long as the shorter array
GetStripsInfo(frame) ==
    [i \in 1..Min(Len(frame.offsets), Len(frame.sizes)) |->
        [offset |-> frame.offsets[i], size |-> frame.sizes[i]]]

\* Array2::<u16>::zeros((height, width)), flat
Zeros(height, width) == [i \in 1..(height * width) |-> 0]

\* pos_skip_max = (1 << code_len) - 1
PosSkipMax(code_len) == Pow2(code_len) - 1

StartRow(idx, rows_per_strip) == idx * rows_per_strip

EndRow(idx, rows_per_strip, height) ==
    Min(StartRow(idx, rows_per_strip) + rows_per_strip, height)

StripPixelStart(idx, frame) == StartRow(idx, frame.rows_per_strip) * frame.width

StripPixelEnd(idx, frame) ==
    EndRow(idx, frame.rows_per_strip, frame.height) * frame.width

\* the while condition: (strip_pixel_start + pos) < strip_pixel_end
InStrip(start, p, end) == (start + p) < end

\* the break condition taken one pixel late
PastStripEndLate(start, p, end) == (start + p) > end

\* the break condition: (strip_pixel_start + pos) >= strip_pixel_end
PastStripEnd(start, p, end) == (start + p) >= end

\* skip < pos_skip_max: the code word is an event, not the sentinel
IsEvent(skip, code_len) == skip < PosSkipMax(code_len)

\* the slice index with row and column exchanged
SliceIndexTransposed(start, p, width) ==
    LET global_pixel == start + p
        row == global_pixel \div width
        col == global_pixel % width
    IN  col * width + row

\* global_pixel, then row * width + col
SliceIndex(start, p, width) ==
    LET global_pixel == start + p
        row == global_pixel \div width
        col == global_pixel % width
    IN  row * width + col

\* a u16 addition leaves the range of a u16
U16Overflows(a, b) == a + b >= Pow2(16)

\* the u16 addition of a build without overflow checks
U16Add(a, b) == (a + b) % Pow2(16)

\* a u16 "+=" panics: the build checks overflow and the sum overflows
U16AddPanics(checked, a, b) == checked /\ U16Overflows(a, b)

\* how many passes through the while loop of one strip a run is followed for
MaxIters == 12

\* one pass through the body of the while loop, on the stream (buf, bp) at
\* pixel offset p: what it does ("break", "event", "skip" or "panic"), the
\* cursor and offset it leaves, and the slice index it increments
StripIter(buf, bp, p, prm, start, end, width) ==
    LET r1 == GetBits(buf, bp, prm.code_len)
        skip == U32Val(r1.val)
        p1 == p + skip
        r2 == GetBits(buf, r1.bit_pos, prm.vert_sub_bits)
        r3 == GetBits(buf, r2.bit_pos, prm.horz_sub_bits)
    IN  IF ~r1.ok
        THEN [status |-> "panic", bit_pos |-> bp, pos |-> p, pixel |-> -1]
        ELSE IF PastStripEnd(start, p1, end)
        THEN [status |-> "break", bit_pos |-> r1.bit_pos, pos |-> p1,
              pixel |-> -1]
        ELSE IF IsEvent(skip, prm.code_len)
        THEN IF ~r2.ok
             THEN [status |-> "panic", bit_pos |-> r1.bit_pos, pos |-> p1,
                   pixel |-> -1]
             ELSE IF ~r3.ok
             THEN [status |-> "panic", bit_pos |-> r2.bit_pos, pos |-> p1,
                   pixel |-> -1]
             ELSE [status |-> "event", bit_pos |-> r3.bit_pos,
                   pos |-> p1 + 1, pixel |-> SliceIndex(start, p1, width)]
        ELSE [status |-> "skip", bit_pos |-> r1.bit_pos, pos |-> p1,
              pixel |-> -1]

\* decode_eer_frame up to the strip loop: the zeroed image and the strip list
DecodeFrameStart ==
    /\ pc = "decode_frame"
    /\ pc' = "strip"
    /\ image' = Zeros(CurFrame.height, CurFrame.width)
    /\ strips_info' = GetStripsInfo(CurFrame)
    /\ strip_idx' = 0
    /\ pos' = 0
    /\ events' = <<>>
    /\ iters' = 0
    /\ decodeLog' = Append(decodeLog, [frame |-> cursor, params |-> params])
    /\ UNCHANGED <<bsVars, readVars, container, cursor, params, frmVars,
                   sumLog, firstRun, overflow_checks, entry>>

\* seek, then read_exact of size bytes: it fails when fewer than size bytes
\* follow the offset; a read of no bytes succeeds wherever the offset is
ReadExactFails(file, offset, size) == size > 0 /\ offset + size > Len(file)

\* the bytes read_exact puts into raw_data[..size]
StripBytes(file, offset, size) ==
    IF size = 0 THEN <<>> ELSE SubSeq(file, offset + 1, offset + size)

\* the head of the strip loop: seek, read_exact, a fresh BitStream
StripRead ==
    /\ pc = "strip"
    /\ strip_idx < Len(strips_info)
    /\ LET s == strips_info[strip_idx + 1]
       IN  IF ReadExactFails(container.file, s.offset, s.size)
           THEN /\ pc' = "error"
                /\ UNCHANGED <<bsVars, pos>>
           ELSE /\ pc' = "loop"
                /\ buffer' = StripBytes(container.file, s.offset, s.size)
                /\ bit_pos' = 0
                /\ pos' = 0
    /\ iters' = 0
    /\ UNCHANGED <<readVars, container, cursor, params, image, strips_info,
                   strip_idx, events, frmVars, logVars>>

\* one iteration of the while loop of the current strip
StripLoopIter ==
    /\ pc = "loop"
    /\ iters < MaxIters
    /\ iters' = iters + 1
    /\ InStrip(StripPixelStart(strip_idx, CurFrame), pos,
               StripPixelEnd(strip_idx, CurFrame))
    /\ LET r == StripIter(buffer, bit_pos, pos, params,
                          StripPixelStart(strip_idx, CurFrame),
                          StripPixelEnd(strip_idx, CurFrame), CurFrame.width)
           inside == r.status = "event" /\ r.pixel < Len(image)
           hit == inside /\ ~U16AddPanics(overflow_checks,
                                          image[r.pixel + 1], 1)
       IN  /\ bit_pos' = r.bit_pos
           /\ pos' = r.pos
           /\ pc' = CASE r.status = "panic" -> "panic"
                      [] r.status = "break" -> "strip"
                      [] r.status = "event" /\ ~hit -> "panic"
                      [] OTHER -> "loop"
           /\ strip_idx' = IF r.status = "break" THEN strip_idx + 1
                           ELSE strip_idx
           /\ image' = IF hit
                       THEN [image EXCEPT ![r.pixel + 1] = U16Add(@, 1)]
                       ELSE image
           /\ events' = IF hit
                        THEN Append(events, [strip |-> strip_idx,
                                             pixel |-> r.pixel])
                        ELSE events
    /\ UNCHANGED <<buffer, readVars, container, cursor, params, strips_info,
                   frmVars, logVars>>

\* the while condition fails: on to the next strip
StripLoopExit ==
    /\ pc = "loop"
    /\ ~InStrip(StripPixelStart(strip_idx, CurFrame), pos,
                StripPixelEnd(strip_idx, CurFrame))
    /\ pc' = "strip"
    /\ strip_idx' = strip_idx + 1
    /\ UNCHANGED <<bsVars, readVars, container, cursor, params, image,
                   strips_info, pos, events, iters, frmVars, logVars>>

\* all strips done: Ok(image)
DecodeFrameReturn ==
    /\ pc = "strip"
    /\ strip_idx = Len(strips_info)
    /\ pc' = "frame_done"
    /\ UNCHANGED <<bsVars, readVars, container, cursor, params, decVars,
                   frmVars, logVars>>

-----------------------------------------------------------------------------
(* Frame accumulator: generate_thumbnail and decode_frames *)

\* decoder.more_images(): an IFD follows the current one
MoreImages == cursor + 1 < Len(container.frames)

\* an advance that is taken to succeed whatever the directory holds
NextImageUnchecked(frame) == TRUE

\* decoder.next_image() succeeds: the frame's directory (IFD) can be read
NextImage(frame) == frame.ifd_ok

\* let skip_frames = Some(10): the stride generate_thumbnail decodes with
ThumbStride == 10

\* generate_thumbnail up to the call of decode_frames: the parameters of the
\* first frame, the frame count taken on a clone of the decoder, which
\* advances through every frame of the file, and the fixed stride
ThumbStart ==
    /\ pc = "thumb"
    /\ LET r == GetCompressionParams(CurFrame)
           counted == \A k \in 2..Len(container.frames) :
                         NextImage(container.frames[k])
       IN  IF r.ok /\ counted
           THEN /\ pc' = "frames_start"
                /\ params' = r.params
                /\ num_frames' = Len(container.frames)
                /\ skip_frames' = Some(ThumbStride)
           ELSE /\ pc' = "error"
                /\ UNCHANGED <<params, num_frames, skip_frames>>
    /\ UNCHANGED <<bsVars, readVars, container, cursor, decVars,
                   sum_image, step, frame_idx, skip_left, logVars>>

\* the steps that skip the frames up to the one half a stride too early
SkipCountShort(st, n, idx) == Min(st - 1, n - idx - 1)

\* step.min(num_frames - frame_idx - 1): how often the skip loop runs
SkipCount(st, n, idx) == Min(st, n - idx - 1)

\* the parameters left as they are when the decoder moves to a frame
ResolveStale(old, frame) == [ok |-> TRUE, params |-> old]

\* *params = get_compression_params(decoder)? after next_image
ResolveNext(old, frame) == GetCompressionParams(frame)

\* decode_frames before its loop.  (num_frames + step - 1) / step divides by
\* zero, a panic, when the stride is zero.
DecodeFramesStart ==
    /\ pc = "frames_start"
    /\ LET st == IF skip_frames.some THEN skip_frames.val ELSE 1
       IN  /\ step' = st
           /\ pc' = IF st = 0 THEN "panic" ELSE "frame_loop"
    /\ sum_image' = Zeros(CurFrame.height, CurFrame.width)
    /\ frame_idx' = 0
    /\ UNCHANGED <<bsVars, readVars, container, cursor, params, decVars,
                   skip_frames, num_frames, skip_left, logVars>>

\* for frame_idx in (0..num_frames).step_by(step): one more frame to decode
FrameLoopNext ==
    /\ pc = "frame_loop"
    /\ frame_idx < num_frames
    /\ pc' = "decode_frame"
    /\ UNCHANGED <<bsVars, readVars, container, cursor, params, decVars,
                   frmVars, logVars>>

\* the loop is over: Ok(sum_image)
FramesReturn ==
    /\ pc = "frame_loop"
    /\ frame_idx >= num_frames
    /\ pc' = "frames_done"
    /\ UNCHANGED <<bsVars, readVars, container, cursor, params, decVars,
                   frmVars, logVars>>

\* the frame image taking the place of the sum
AddImagesOverwrite(a, b) == b

\* the element-wise sum of sum_image += &frame_image
AddImages(a, b) == [i \in 1..Len(a) |-> U16Add(a[i], b[i])]

\* the elements whose addition panics in a build with overflow checks
Overflowing(checked, a, b) ==
    {i \in 1..Len(a) : U16AddPanics(checked, a[i], b[i])}

\* the sum as the panic leaves it: the elements before the first overflowing
\* one are added, the rest are not
AddImagesUpTo(a, b, stop) ==
    [i \in 1..Len(a) |-> IF i < stop THEN U16Add(a[i], b[i]) ELSE a[i]]

\* sum_image += &frame_image, and the bound of the skip loop
SumFrame ==
    /\ pc = "frame_done"
    /\ LET over == Overflowing(overflow_checks, sum_image, image)
       IN  IF over = {}
           THEN /\ pc' = "skip"
                /\ sum_image' = AddImages(sum_image, image)
                /\ sumLog' = Append(sumLog, image)
                /\ skip_left' = SkipCount(step, num_frames, frame_idx)
           ELSE /\ pc' = "panic"
                /\ sum_image' = AddImagesUpTo(sum_image, image,
                                   CHOOSE i \in over : \A j \in over : i <= j)
                /\ UNCHANGED <<sumLog, skip_left>>
    /\ UNCHANGED <<bsVars, readVars, container, cursor, params, decVars,
                   skip_frames, num_frames, step, frame_idx, decodeLog,
                   firstRun, overflow_checks, entry>>

\* one iteration of the skip loop: next_image and the new frame's parameters
SkipStep ==
    /\ pc = "skip"
    /\ skip_left > 0
    /\ skip_left' = skip_left - 1
    /\ IF MoreImages
       THEN IF NextImage(container.frames[cursor + 2])
            THEN LET r == ResolveNext(params, container.frames[cursor + 2])
                 IN  /\ cursor' = cursor + 1
                     /\ params' = IF r.ok THEN r.params ELSE params
                     /\ pc' = IF r.ok THEN "skip" ELSE "error"
            ELSE /\ pc' = "error"
                 /\ UNCHANGED <<cursor, params>>
       ELSE UNCHANGED <<cursor, params, pc>>
    /\ UNCHANGED <<bsVars, readVars, container, decVars, skip_frames,
                   sum_image, num_frames, step, frame_idx, logVars>>

\* the skip loop is over: the next frame_idx of the outer loop
SkipDone ==
    /\ pc = "skip"
    /\ skip_left = 0
    /\ pc' = "frame_loop"
    /\ frame_idx' = frame_idx + step
    /\ UNCHANGED <<bsVars, readVars, container, cursor, params, decVars,
                   skip_frames, sum_image, num_frames, step, skip_left,
                   logVars>>

\* save_image(&image, ...): generate_thumbnail writes the thumbnail
SaveImage ==
    /\ pc = "frames_done"
    /\ entry = "generate_thumbnail"
    /\ pc' = "saved"
    /\ UNCHANGED <<bsVars, readVars, container, cursor, params, decVars,
                   frmVars, logVars>>

-----------------------------------------------------------------------------
(* The bit reader on its own: any sequence of get_bits calls on a buffer *)

BufLen == 5

BufBytes == {90, 255}

RECURSIVE SeqsOf(_, _)
SeqsOf(S, n) ==
    IF n = 0 THEN {<<>>}
    ELSE {Append(s, x) : s \in SeqsOf(S, n - 1), x \in S}

\* the buffer of tests::test_bitstream_basic, and the buffers of BufLen bytes
BitBuffers == {<<177>>} \cup SeqsOf(BufBytes, BufLen)

ReadWidths == {1, 2, 3, 7, 8, 16, 25, 26, 32}

NoRead == [n |-> 0, start |-> 0, val |-> <<>>]

InitBits ==
    /\ pc = "bits"
    /\ buffer \in BitBuffers
    /\ bit_pos = 0
    /\ lastRead = NoRead
    /\ readOut = <<>>
    /\ container = NoContainer
    /\ cursor = 0
    /\ params = NoParams
    /\ image = <<>>
    /\ strips_info = <<>>
    /\ strip_idx = 0
    /\ pos = 0
    /\ events = <<>>
    /\ iters = 0
    /\ skip_frames = None
    /\ sum_image = <<>>
    /\ num_frames = 0
    /\ step = 0
    /\ frame_idx = 0
    /\ skip_left = 0
    /\ decodeLog = <<>>
    /\ sumLog = <<>>
    /\ firstRun = NoRun
    /\ overflow_checks = FALSE
    /\ entry = "get_bits"

\* one call of get_bits(n) on the stream
BsGetBits(n) ==
    /\ pc = "bits"
    /\ LET r == GetBits(buffer, bit_pos, n)
       IN  /\ pc' = IF r.ok THEN "bits" ELSE "panic"
           /\ bit_pos' = r.bit_pos
           /\ lastRead' = IF r.ok
                          THEN [n |-> n, start |-> bit_pos, val |-> r.val]
                          ELSE lastRead
           /\ readOut' = IF r.ok
                         THEN readOut \o SubSeq(r.val, 1, n)
                         ELSE readOut
    /\ UNCHANGED <<buffer, container, cursor, params, decVars, frmVars,
                   logVars>>

NextBits == \E n \in ReadWidths : BsGetBits(n)

SpecBits == InitBits /\ [][NextBits]_vars

-----------------------------------------------------------------------------
(* The event decoder on one frame: decode_eer_frame on a one-frame file *)

MaxHeight == 2

MaxStrips == 3

RECURSIVE Flatten(_)
Flatten(ss) == IF ss = <<>> THEN <<>> ELSE Head(ss) \o Flatten(Tail(ss))

\* the strips laid out one after the other from the start of the file
StripOffsets(strips) ==
    [i \in 1..Len(strips) |-> Len(Flatten(SubSeq(strips, 1, i - 1)))]

StripSizes(strips) == [i \in 1..Len(strips) |-> Len(strips[i])]

DropLast(q) == SubSeq(q, 1, Len(q) - 1)

\* the same layout, with the offset of every strip of no bytes put past the
\* end of the file
FarEmptyOffsets(strips) ==
    [i \in 1..Len(strips) |->
        IF Len(strips[i]) = 0
        THEN Len(Flatten(strips)) + 4
        ELSE StripOffsets(strips)[i]]

\* the frame an input describes; mism shortens one of the two strip arrays
\* or moves the offsets of the empty strips
MkFrame(inp) ==
    [compression |-> inp.comp, has_tags |-> inp.comp = CodeCustom,
     tags |-> inp.tags, width |-> inp.w, height |-> inp.h,
     rows_per_strip |-> inp.rps, ifd_ok |-> TRUE,
     offsets |-> IF inp.mism = "short_offsets"
                 THEN DropLast(StripOffsets(inp.strips))
                 ELSE IF inp.mism = "far_empty"
                 THEN FarEmptyOffsets(inp.strips)
                 ELSE StripOffsets(inp.strips),
     sizes |-> IF inp.mism = "short_sizes"
               THEN DropLast(StripSizes(inp.strips))
               ELSE StripSizes(inp.strips)]

Tags(c, h, v) == [code_len |-> c, horz_sub_bits |-> h, vert_sub_bits |-> v]

Input(comp, tags, w, h, rps, strips, mism) ==
    [comp |-> comp, tags |-> tags, w |-> w, h |-> h, rps |-> rps,
     strips |-> strips, mism |-> mism]

\* "short_file" cuts the last byte off the file instead
Mismatches ==
    {"none", "short_offsets", "short_sizes", "short_file", "far_empty"}

FileOf(inp) ==
    IF inp.mism = "short_file"
    THEN DropLast(Flatten(inp.strips))
    ELSE Flatten(inp.strips)

\* small frames with custom code lengths: every strip count, height,
\* rows_per_strip and strip content of the sets below
SmallStrips == {<<>>, <<16>>, <<228, 49>>}

SmallInputs ==
    {Input(CodeCustom, t, w, h, rps, strips, m) :
        t \in {Tags(2, 1, 1), Tags(3, 0, 1)},
        w \in {2, 3},
        h \in 1..MaxHeight,
        rps \in 1..MaxHeight,
        strips \in UNION {SeqsOf(SmallStrips, n) : n \in 1..MaxStrips},
        m \in Mismatches}

\* one strip holding the sentinel alone
SentinelInputs ==
    {Input(CodeFixed8, NoParams, w, 1, 1, <<<<255>>>>, "none") :
        w \in {10, 255, 256, 257}}
    \cup {Input(CodeFixed7, NoParams, w, 1, 1, <<<<b>>>>, "none") :
        w \in {127, 128, 129}, b \in {127, 255}}
    \cup {Input(CodeCustom, Tags(5, 1, 1), w, 1, 1, <<<<31>>>>, "none") :
        w \in {31, 32, 33}}

\* one strip holding one code word and its sub-pixel bits
SingleEventInputs ==
    {Input(c, NoParams, w, 1, 1, <<<<5, b>>>>, "none") :
        c \in {CodeFixed8, CodeFixed7}, w \in {5, 6, 7, 8, 10},
        b \in {0, 240}}

\* the code words 5, 255, 3 of 8 bits, with 4 sub-pixel bits after the 5
\* and after the 3, in a strip of 10 pixels
WorkedExampleInputs ==
    {Input(CodeFixed8, NoParams, d[1], d[2], d[2],
           <<<<5, 240 + s1, 63, 16 * s2>>>>, "none") :
        d \in {<<10, 1>>, <<5, 2>>}, s1 \in {0, 9, 15}, s2 \in {0, 6, 15}}

\* an empty strip before a strip with data, under the fixed codes
EmptyStripInputs ==
    {Input(c, NoParams, w, 2, 1, << <<>>, <<1, 0>> >>, "none") :
        c \in {CodeFixed8, CodeFixed7}, w \in {1, 4}}

\* custom tags that give the code word no bits at all
ZeroLenInputs ==
    {Input(CodeCustom, t, w, 1, 1, <<s>>, "none") :
        t \in {Tags(0, 1, 1), Tags(0, 0, 0)}, w \in {1, 2},
        s \in {<<>>, <<16>>}}

DecodeInputs ==
    SmallInputs \cup SentinelInputs \cup SingleEventInputs
        \cup WorkedExampleInputs \cup EmptyStripInputs \cup ZeroLenInputs

InitDecode ==
    \E inp \in DecodeInputs :
        /\ pc = "decode_frame"
        /\ container = [frames |-> <<MkFrame(inp)>>,
                        file |-> FileOf(inp)]
        /\ cursor = 0
        /\ params = GetCompressionParams(MkFrame(inp)).params
        /\ buffer = <<>>
        /\ bit_pos = 0
        /\ lastRead = NoRead
        /\ readOut = <<>>
        /\ image = <<>>
        /\ strips_info = <<>>
        /\ strip_idx = 0
        /\ pos = 0
        /\ events = <<>>
        /\ iters = 0
        /\ skip_frames = None
        /\ sum_image = <<>>
        /\ num_frames = 1
        /\ step = 1
        /\ frame_idx = 0
        /\ skip_left = 0
        /\ decodeLog = <<>>
        /\ sumLog = <<>>
        /\ firstRun = NoRun
        /\ overflow_checks = FALSE
        /\ entry = "decode_eer_frame"

NextDecode ==
    \/ DecodeFrameStart
    \/ StripRead
    \/ StripLoopIter
    \/ StripLoopExit
    \/ DecodeFrameReturn

SpecDecode == InitDecode /\ [][NextDecode]_vars

-----------------------------------------------------------------------------
(* The whole thumbnail run on files of several frames *)

MaxFrames == 4

\* the bytes of the one strip every frame of these files has: under code
\* 65000 they hold no event, under 65001 one and under the custom lengths two
FrameStrip == <<128, 248>>

\* LZW, a compression code outside the table
CodeOther == 5

FrameKinds ==
    {[compression |-> c, has_tags |-> c = CodeCustom,
      tags |-> IF c = CodeCustom THEN Tags(2, 1, 1) ELSE NoParams,
      width |-> 2, height |-> 1, rows_per_strip |-> 1, ifd_ok |-> TRUE,
      offsets |-> <<0>>, sizes |-> <<Len(FrameStrip)>>] :
        c \in {CodeFixed8, CodeFixed7, CodeCustom, CodeOther}}

\* the strides a caller of decode_frames passes: none, and small values
\* around the frame counts (10 is the one generate_thumbnail passes)
Strides == {None, Some(0), Some(1), Some(2), Some(3), Some(10)}

\* generate_thumbnail(path, output_path) from its start
ThumbCall ==
    /\ entry = "generate_thumbnail"
    /\ pc = "thumb"
    /\ params = NoParams
    /\ num_frames = 0
    /\ skip_frames = None

\* decode_frames called on a Decoder at frame 0, with that frame's
\* parameters, the file's frame count and a stride of the set
DirectCall(strides) ==
    /\ entry = "decode_frames"
    /\ pc = "frames_start"
    /\ GetCompressionParams(container.frames[1]).ok
    /\ params = GetCompressionParams(container.frames[1]).params
    /\ num_frames = Len(container.frames)
    /\ skip_frames \in strides

CallEntry(strides) == ThumbCall \/ DirectCall(strides)

InitFrames ==
    /\ container \in {[frames |-> fs, file |-> FrameStrip] :
                        fs \in UNION {SeqsOf(FrameKinds, n) :
                                        n \in 1..MaxFrames}}
    /\ CallEntry(Strides)
    /\ cursor = 0
    /\ buffer = <<>>
    /\ bit_pos = 0
    /\ lastRead = NoRead
    /\ readOut = <<>>
    /\ image = <<>>
    /\ strips_info = <<>>
    /\ strip_idx = 0
    /\ pos = 0
    /\ events = <<>>
    /\ iters = 0
    /\ sum_image = <<>>
    /\ step = 0
    /\ frame_idx = 0
    /\ skip_left = 0
    /\ decodeLog = <<>>
    /\ sumLog = <<>>
    /\ firstRun = NoRun
    /\ overflow_checks = FALSE

\* the steps of decode_frames
NextDecodeFrames ==
    \/ DecodeFramesStart
    \/ FrameLoopNext
    \/ FramesReturn
    \/ DecodeFrameStart
    \/ StripRead
    \/ StripLoopIter
    \/ StripLoopExit
    \/ DecodeFrameReturn
    \/ SumFrame
    \/ SkipStep
    \/ SkipDone

NextFrames ==
    \/ ThumbStart
    \/ NextDecodeFrames
    \/ SaveImage

SpecFrames == InitFrames /\ [][NextFrames]_vars

-----------------------------------------------------------------------------
(* Two frames summed in one order and then in the other *)

\* three strips of two bytes, one after the other in the file
AddFile == <<128, 248, 1, 0, 0, 255>>

\* the frames of identical dimensions, one strip each: under the three table
\* codes the three strips decode to the images 00, 10, 01 and 11
AddKinds ==
    {[compression |-> c, has_tags |-> c = CodeCustom,
      tags |-> IF c = CodeCustom THEN Tags(2, 1, 1) ELSE NoParams,
      width |-> 2, height |-> 1, rows_per_strip |-> 1, ifd_ok |-> TRUE,
      offsets |-> <<o>>, sizes |-> <<2>>] :
        c \in {CodeFixed8, CodeFixed7, CodeCustom}, o \in {0, 2, 4}}

Reverse(s) == [i \in 1..Len(s) |-> s[Len(s) + 1 - i]]

InitAdd ==
    /\ container \in {[frames |-> <<a, b>>, file |-> AddFile] :
                        a \in AddKinds, b \in AddKinds}
    /\ DirectCall({None, Some(1)})
    /\ overflow_checks \in BOOLEAN
    /\ cursor = 0
    /\ buffer = <<>>
    /\ bit_pos = 0
    /\ lastRead = NoRead
    /\ readOut = <<>>
    /\ image = <<>>
    /\ strips_info = <<>>
    /\ strip_idx = 0
    /\ pos = 0
    /\ events = <<>>
    /\ iters = 0
    /\ sum_image = <<>>
    /\ step = 0
    /\ frame_idx = 0
    /\ skip_left = 0
    /\ decodeLog = <<>>
    /\ sumLog = <<>>
    /\ firstRun = NoRun

\* the first sum is kept, and the same call is made on a file that holds the
\* same frames in the opposite order
Replay ==
    /\ pc = "frames_done"
    /\ ~firstRun.done
    /\ firstRun' = [done |-> TRUE, sum |-> sum_image, images |-> sumLog]
    /\ container' = [container EXCEPT !.frames = Reverse(@)]
    /\ pc' = "frames_start"
    /\ cursor' = 0
    /\ decodeLog' = <<>>
    /\ sumLog' = <<>>
    /\ params' = GetCompressionParams(container'.frames[1]).params
    /\ UNCHANGED <<bsVars, readVars, decVars, frmVars, overflow_checks,
                   entry>>

NextAdd ==
    \/ NextDecodeFrames
    \/ Replay

SpecAdd == InitAdd /\ [][NextAdd]_vars

-----------------------------------------------------------------------------
(* decode_frames on files with frames it cannot use *)

\* frames under a table code, under LZW, and with a directory that cannot
\* be read
SkipKinds ==
    {[compression |-> c, has_tags |-> c = CodeCustom,
      tags |-> IF c = CodeCustom THEN Tags(2, 1, 1) ELSE NoParams,
      width |-> 2, height |-> 1, rows_per_strip |-> 1, ifd_ok |-> ok,
      offsets |-> <<0>>, sizes |-> <<Len(FrameStrip)>>] :
        c \in {CodeFixed7, CodeCustom, CodeOther}, ok \in BOOLEAN}

\* the frames a Decoder can be opened on and parameters be resolved for
FirstKinds == {f \in SkipKinds : f.ifd_ok /\ f.compression # CodeOther}

SkipFiles ==
    {<<f>> \o rest :
        f \in FirstKinds,
        rest \in UNION {SeqsOf(SkipKinds \ {k \in SkipKinds :
                                   ~k.ifd_ok /\ k.compression # CodeFixed7},
                                n) : n \in 0..(MaxFrames - 1)}}

\* generate_thumbnail from its start, or decode_frames called on a Decoder
\* at frame 0 with that frame's parameters and the file's frame count
InitSkip ==
    /\ container \in {[frames |-> fs, file |-> FrameStrip] : fs \in SkipFiles}
    /\ CallEntry(Strides)
    /\ cursor = 0
    /\ buffer = <<>>
    /\ bit_pos = 0
    /\ lastRead = NoRead
    /\ readOut = <<>>
    /\ image = <<>>
    /\ strips_info = <<>>
    /\ strip_idx = 0
    /\ pos = 0
    /\ events = <<>>
    /\ iters = 0
    /\ sum_image = <<>>
    /\ step = 0
    /\ frame_idx = 0
    /\ skip_left = 0
    /\ decodeLog = <<>>
    /\ sumLog = <<>>
    /\ firstRun = NoRun
    /\ overflow_checks = FALSE

SpecSkip == InitSkip /\ [][NextFrames]_vars

-----------------------------------------------------------------------------
(* The last frame of a long file: the sum after 2^16 - 1 frames *)

\* the frames summed before the one the run stands on
FramesBefore == Pow2(16) - 1

\* counts a pixel of the sum can hold after FramesBefore frames of at most
\* one event per pixel
SumCounts == {0, 1, Pow2(16) - 2, Pow2(16) - 1}

\* decode_frames at the head of its loop for the last frame, in a build with
\* or without overflow checks.  Of the file's frames only the last one is
\* kept; the logs start at this frame.
InitSum ==
    /\ pc = "frame_loop"
    /\ \E f \in AddKinds :
          /\ container = [frames |-> [k \in {FramesBefore + 1} |-> f],
                          file |-> AddFile]
          /\ params = GetCompressionParams(f).params
    /\ cursor = FramesBefore
    /\ frame_idx = FramesBefore
    /\ num_frames = FramesBefore + 1
    /\ skip_frames = Some(1)
    /\ step = 1
    /\ sum_image \in {<<a, b>> : a \in SumCounts, b \in SumCounts}
    /\ overflow_checks \in BOOLEAN
    /\ buffer = <<>>
    /\ bit_pos = 0
    /\ lastRead = NoRead
    /\ readOut = <<>>
    /\ image = <<>>
    /\ strips_info = <<>>
    /\ strip_idx = 0
    /\ pos = 0
    /\ events = <<>>
    /\ iters = 0
    /\ skip_left = 0
    /\ decodeLog = <<>>
    /\ sumLog = <<>>
    /\ firstRun = NoRun
    /\ entry = "decode_frames"

NextSum ==
    \/ FrameLoopNext
    \/ FramesReturn
    \/ DecodeFrameStart
    \/ StripRead
    \/ StripLoopIter
    \/ StripLoopExit
    \/ DecodeFrameReturn
    \/ SumFrame
    \/ SkipDone

SpecSum == InitSum /\ [][NextSum]_vars

-----------------------------------------------------------------------------
(* C1 *)

\* a read that lies inside the buffer
ReadInside == lastRead.n >= 1 /\ lastRead.start + lastRead.n <= 8 * Len(buffer)

\* C1: every get_bits(n), 1 <= n <= 32, that lies inside the buffer returns
\* exactly the next n bits (LSB first, bit 0 = first unread bit) and advances
\* the cursor by n; and once reads inside the buffer have consumed all
\* 8*len bits, the values concatenated in order are the buffer and
\* no_bits_left() is true.
BitsReadExact ==
    /\ (pc = "bits" /\ ReadInside) =>
          /\ bit_pos = lastRead.start + lastRead.n
          /\ \A k \in 1..WordBits :
                lastRead.val[k] = IF k <= lastRead.n
                                  THEN BufBit(buffer, lastRead.start + k - 1)
                                  ELSE 0
    /\ (pc = "bits" /\ bit_pos = 8 * Len(buffer)) =>
          /\ readOut = BufferBits(buffer)
          /\ NoBitsLeft(buffer, bit_pos)

-----------------------------------------------------------------------------
(* Properties of decode_eer_frame *)

\* the number held in the n bits of buf from bit offset off on, LSB first
RECURSIVE FieldAt(_, _, _)
FieldAt(buf, off, n) ==
    IF n = 0 THEN 0 ELSE BufBit(buf, off) + 2 * FieldAt(buf, off + 1, n - 1)

\* the strip table lists exactly one strip, and its bytes are in the file
OneStrip ==
    /\ Len(CurFrame.offsets) = 1
    /\ Len(CurFrame.sizes) = 1
    /\ CurFrame.offsets[1] + CurFrame.sizes[1] <= Len(container.file)

\* the bytes of the only strip
TheStrip ==
    SubSeq(container.file, CurFrame.offsets[1] + 1,
           CurFrame.offsets[1] + CurFrame.sizes[1])

\* the pixel count of strip 0
StripPixels == StripPixelEnd(0, CurFrame) - StripPixelStart(0, CurFrame)

SubBits == params.vert_sub_bits + params.horz_sub_bits

\* the strip's bytes hold exactly one code word, and it is the sentinel
SentinelOnly ==
    /\ pc \notin {"bits", "error"}
    /\ OneStrip
    /\ params.code_len >= 1
    /\ 8 * Len(TheStrip) >= params.code_len
    /\ 8 * Len(TheStrip) - params.code_len < params.code_len
    /\ FieldAt(TheStrip, 0, params.code_len) = Pow2(params.code_len) - 1

\* C3: decoding a strip whose only code word is the sentinel completes with
\* every pixel still zero, whatever code_len and the strip's pixel range.
SentinelSkipOnly ==
    SentinelOnly =>
        /\ pc # "panic"
        /\ events = <<>>
        /\ \A i \in 1..Len(image) : image[i] = 0

\* the strip's bytes hold exactly one code word below the sentinel, then its
\* sub-pixel bits, and the code word's position is a pixel of the strip
SingleEvent ==
    /\ pc \notin {"bits", "error"}
    /\ OneStrip
    /\ params.code_len >= 1
    /\ 8 * Len(TheStrip) >= params.code_len + SubBits
    /\ 8 * Len(TheStrip) - (params.code_len + SubBits) < params.code_len
    /\ FieldAt(TheStrip, 0, params.code_len) < Pow2(params.code_len) - 1
    /\ FieldAt(TheStrip, 0, params.code_len) < StripPixels

\* C4: a strip of one code word (skip < sentinel) and its sub-pixel bits
\* increments exactly one pixel, the one at flat index strip_pixel_start +
\* skip, by exactly one, and leaves every other pixel unchanged.
SingleEventExact ==
    SingleEvent =>
        LET skip == FieldAt(TheStrip, 0, params.code_len)
        IN  /\ pc # "panic"
            /\ \A k \in 1..Len(events) : events[k].pixel = skip
            /\ \A i \in 1..Len(image) :
                  image[i] <= (IF i = skip + 1 THEN 1 ELSE 0)
            /\ pc = "frame_done" => image[skip + 1] = 1

\* code_len 8, a strip of 10 pixels, the code words 5, 255, 3 with four
\* sub-pixel bits after each code word that is not the sentinel
WorkedExample ==
    /\ pc \notin {"bits", "error"}
    /\ OneStrip
    /\ params = Tags(8, 2, 2)
    /\ StripPixels = 10
    /\ Len(TheStrip) = 4
    /\ FieldAt(TheStrip, 0, 8) = 5
    /\ FieldAt(TheStrip, 12, 8) = 255
    /\ FieldAt(TheStrip, 20, 8) = 3

\* C5 as stated: the worked example records two events, the first at local
\* position 5, the second from the final code 3.
WorkedExampleTwoEvents ==
    (WorkedExample /\ pc = "frame_done") =>
        /\ Len(events) = 2
        /\ events[1].pixel = 5

\* C5 amended: the worked example records exactly one event, at local
\* position 5; the sentinel then moves pos to 261, past the end of the
\* 10-pixel strip, so the loop stops with the final code 3 unread (the
\* cursor stays at bit 20).
WorkedExampleOneEvent ==
    WorkedExample =>
        /\ pc # "panic"
        /\ Len(events) <= 1
        /\ \A k \in 1..Len(events) : events[k] = [strip |-> 0, pixel |-> 5]
        /\ pc = "frame_done" =>
              /\ Len(events) = 1
              /\ image = [i \in 1..Len(image) |-> IF i = 6 THEN 1 ELSE 0]
              /\ pos = 261
              /\ bit_pos = 20

WorkedExampleDecoded == WorkedExample /\ pc = "frame_done" /\ pos = 261

\* how often pixel i was incremented
EventCount(i) == Cardinality({k \in 1..Len(events) : events[k].pixel = i})

\* C8: every pixel incremented while decoding strip i lies in strip i's
\* range [strip_pixel_start, strip_pixel_end), which is inside the image and
\* disjoint from the range of every other strip; the image changes nowhere
\* else.
WritesInsideStrip ==
    pc \in {"strip", "loop", "frame_done", "panic", "error"} =>
        /\ \A k \in 1..Len(events) :
              LET e == events[k]
              IN  /\ StripPixelStart(e.strip, CurFrame) <= e.pixel
                  /\ e.pixel < StripPixelEnd(e.strip, CurFrame)
                  /\ 0 <= e.pixel
                  /\ e.pixel < CurFrame.height * CurFrame.width
                  /\ \A j \in 0..(Len(strips_info) - 1) :
                        j # e.strip =>
                            ~(/\ StripPixelStart(j, CurFrame) <= e.pixel
                              /\ e.pixel < StripPixelEnd(j, CurFrame))
        /\ Len(image) = CurFrame.height * CurFrame.width
        /\ \A i \in 1..Len(image) : image[i] = EventCount(i - 1)

\* a frame with more strips than rows was decoded to the end, with events
\* in two strips
WritesInTwoStrips ==
    /\ pc = "frame_done"
    /\ Len(strips_info) > CurFrame.height
    /\ Len(CurFrame.offsets) = Len(CurFrame.sizes)
    /\ \A i \in 1..Len(strips_info) : strips_info[i].size > 0
    /\ \E k \in 1..Len(events) : events[k].strip = 0
    /\ \E k \in 1..Len(events) : events[k].strip = 1
    /\ Len(events) >= 3

\* strip i (from 0) has no bytes and a row range that is not empty
EmptyStrip(i) ==
    /\ i < Len(strips_info)
    /\ strips_info[i + 1].size = 0
    /\ StripPixelStart(i, CurFrame) < StripPixelEnd(i, CurFrame)

\* C9: a strip of size zero with rows to cover records no events and raises
\* no error or abort: decoding goes on with the next strip.
EmptyStripNoEvents ==
    pc \in {"strip", "loop", "frame_done", "panic", "error"} =>
        /\ \A k \in 1..Len(events) : ~EmptyStrip(events[k].strip)
        /\ pc \in {"panic", "error"} => ~EmptyStrip(strip_idx)

\* C10: a frame whose strip-offset and strip-byte-count arrays differ in
\* length is rejected: it is never decoded, to the end or in part.
StripTableConsistent ==
    Len(container.frames) > 0 /\ Len(CurFrame.offsets) # Len(CurFrame.sizes)
        => pc \in {"decode_frame", "error"}

-----------------------------------------------------------------------------
(* Properties of the resolver and of decode_frames *)

\* the closed table of section 4.2, written out
TableCodes == {CodeFixed8, CodeFixed7, CodeCustom}

TableParams(frame) ==
    IF frame.compression = CodeFixed8 THEN Tags(8, 2, 2)
    ELSE IF frame.compression = CodeFixed7 THEN Tags(7, 2, 2)
    ELSE frame.tags

\* the control locations at which resolved parameters are in use
Resolved ==
    {"frames_start", "frame_loop", "decode_frame", "strip", "loop",
     "frame_done", "skip", "frames_done", "saved"}

\* C2: parameters exist only for the three codes of the table, and are the
\* table's; any other code is an error, never a defaulted parameter set, and
\* then no image is produced.
ParamsOnlyFromTable ==
    /\ pc \in Resolved =>
          /\ CurFrame.compression \in TableCodes
          /\ params = TableParams(CurFrame)
    /\ pc \in {"frames_done", "saved"} =>
          \A i \in 1..Len(container.frames) :
              container.frames[i].compression \in TableCodes

\* the run ended in an error on a frame whose code is outside the table
UnsupportedCodeRejected ==
    /\ pc = "error"
    /\ CurFrame.compression \notin TableCodes

\* ceil(n / s)
CeilDiv(n, s) == (n + s - 1) \div s

\* C6: with N frames and stride S >= 1 (1 when none is given), decode_frames
\* calls the frame decoder exactly ceil(N / S) times, on the frames 0, S,
\* 2S, ... below N, each once and in increasing order.
StrideFrameCount ==
    pc \in Resolved \ {"frames_start"} =>
        /\ step = (IF skip_frames.some THEN skip_frames.val ELSE 1)
        /\ \A k \in 1..Len(decodeLog) :
              /\ decodeLog[k].frame = (k - 1) * step
              /\ decodeLog[k].frame < num_frames
        /\ Len(decodeLog) <= CeilDiv(num_frames, step)
        /\ pc \in {"frames_done", "saved"} =>
              Len(decodeLog) = CeilDiv(num_frames, step)

\* four frames at stride three: frames 0 and 3 were decoded
StrideThreeOfFour ==
    /\ pc = "frames_done"
    /\ num_frames = 4
    /\ step = 3
    /\ Len(decodeLog) = 2

\* C7: when the k-th selected frame is decoded the decoder stands on frame
\* k*S and the parameters in use are those of frame k*S's own compression
\* code, not those of frame 0 or of a skipped frame.
ParamsOfDecodedFrame ==
    /\ \A k \in 1..Len(decodeLog) :
          /\ decodeLog[k].frame = (k - 1) * step
          /\ decodeLog[k].params =
                TableParams(container.frames[(k - 1) * step + 1])
    /\ pc \in {"decode_frame", "strip", "loop", "frame_done"} =>
          /\ cursor = frame_idx
          /\ params = TableParams(container.frames[frame_idx + 1])

\* a second frame was decoded at a stride of two or more, under parameters
\* that differ from those of frame 0 and of the frame skipped last
DecodedAfterSkip ==
    /\ Len(decodeLog) >= 2
    /\ step >= 2
    /\ decodeLog[2].params # decodeLog[1].params
    /\ decodeLog[2].params # TableParams(container.frames[step])
    /\ container.frames[step].compression \in TableCodes

-----------------------------------------------------------------------------
(* C11 *)

\* the pixelwise sum of two images, in the integers
PixelSum(a, b) == [i \in 1..Len(a) |-> a[i] + b[i]]

\* C11: the sum of two frames of identical dimensions is the pixelwise sum
\* of the two images the frames decode to, each frame decodes to the same
\* image whichever place it has, and the sum of A then B is the sum of B
\* then A.
FrameSumAdditive ==
    (pc = "frames_done" /\ Len(container.frames) = 2 /\ step = 1) =>
        /\ Len(sumLog) = 2
        /\ sum_image = PixelSum(sumLog[1], sumLog[2])
        /\ firstRun.done =>
              /\ sumLog = Reverse(firstRun.images)
              /\ sum_image = firstRun.sum

\* two frames that decode to different images, with an event on a common
\* pixel, were summed in both orders
SummedBothOrders ==
    /\ pc = "frames_done"
    /\ firstRun.done
    /\ step = 1
    /\ Len(sumLog) = 2
    /\ sumLog[1] # sumLog[2]
    /\ \E i \in 1..Len(sum_image) : sum_image[i] = 2
    /\ \E i \in 1..Len(sum_image) : sum_image[i] = 1

-----------------------------------------------------------------------------
(* C12 *)

\* C12: while a strip is decoded the bit cursor never passes the end of the
\* strip's bytes, so every code word and every sub-pixel field of a recorded
\* event was read from bits that are in the strip.
BitCursorInStrip ==
    pc \in {"loop", "strip", "frame_done"} => bit_pos <= 8 * Len(buffer)

-----------------------------------------------------------------------------
(* C13 *)

\* C13: every pass through the while loop of a strip that leaves the loop
\* running has strictly increased pos, for every strip content and all
\* parameters the resolver returns, so the loop cannot run for ever.
EveryPassAdvances ==
    [][(pc = "loop" /\ pc' = "loop" /\ iters' = iters + 1) => pos' > pos]_vars

\* the loop is cut off only where the code word has no bits
CutOffOnlyZeroLen == iters = MaxIters => params.code_len = 0

-----------------------------------------------------------------------------
(* C14 *)

\* C14: the per-event increment and the frame sum are additions modulo 2^16:
\* whatever the counts, the increment and the sum are made, a count of 65535
\* that receives one more becomes 0, and the run goes on without an error.
OverflowWrapsSilently ==
    [][/\ (pc = "loop" /\ events' # events) =>
             LET px == events'[Len(events')].pixel + 1
             IN  image'[px] = (image[px] + 1) % Pow2(16)
       /\ pc = "frame_done" =>
             /\ pc' = "skip"
             /\ \A i \in 1..Len(sum_image) :
                   sum_image'[i] = (sum_image[i] + image[i]) % Pow2(16)]_vars

-----------------------------------------------------------------------------
(* C15 *)

\* the frames decode_frames selects: 0, S, 2S, ... (as places 1, S + 1, ...)
Selected(k) == (k - 1) % step = 0

\* C15: decode_frames returns a sum only if the decoder could advance to
\* every frame 1..N-1 and every one of them has a code of the table,
\* the frames the stride skips and those after the last decoded one
\* included; it then stands on frame N-1 with that frame's parameters.
SkippedFramesValidated ==
    pc = "frames_done" =>
        /\ cursor = num_frames - 1
        /\ params = TableParams(CurFrame)
        /\ \A k \in 2..num_frames :
              /\ container.frames[k].ifd_ok
              /\ container.frames[k].compression \in TableCodes

\* every selected frame was summed, and then the run ended in an error on a
\* frame after the last selected one, which is never decoded
ErrorAfterAllSummed ==
    /\ pc = "error"
    /\ step >= 2
    /\ num_frames >= 3
    /\ Len(sumLog) = CeilDiv(num_frames, step)
    /\ Len(sumLog) >= 2
    /\ cursor = num_frames - 1
    /\ ~Selected(cursor + 1)
    /\ CurFrame.compression \notin TableCodes

====
